---- MODULE Spec2Model ----
(***************************************************************************)
(* State-machine model of the Turing Smart Screen driver                   *)
(* (src/turing_smart_screen.py): the shared base class TuringDisplayBase   *)
(* and the two hardware variants TuringDisplayVariant1 and                 *)
(* TuringDisplayVariant2, talking to a serial device through               *)
(* device.write / device.read.                                             *)
(*                                                                         *)
(* Conventions                                                             *)
(*  - Time is counted in ticks of 1/100 s, so INTER_BITMAP_DELAY (0.02 s)  *)
(*    is 2 ticks.  time.time() is the variable now; it never runs          *)
(*    backwards, and time.sleep(d) returns no earlier than d later.        *)
(*  - Python assert statements are enabled (the interpreter runs without   *)
(*    -O); a failed assert is the outcome "AssertionError".                *)
(*  - A byte string is a sequence of integers 0..255; a pixel is a triple  *)
(*    <<r, g, b>>; every device.write of the most recent call is one entry *)
(*    of written, tagged with the code place that made it ("cmd" for       *)
(*    send_command, "pix" for a chunk of pixel data) and its time.         *)
(***************************************************************************)
EXTENDS Integers, Sequences, FiniteSets, TLC

\* ---------------------------------------------------------------- constants

ORIENTATION_PORTRAIT == 0
ORIENTATION_LANDSCAPE == 1

INVERT_X == 1
INVERT_Y == 2
INVERT_XY == 3

WIDTH == 320
HEIGHT == 480

\* 0.02 s, in ticks of 1/100 s
INTER_BITMAP_DELAY == 2

V1_CMD_RESET == 101
V1_CMD_CLEAR == 102
V1_CMD_SCREEN_OFF == 108
V1_CMD_SCREEN_ON == 109
V1_CMD_SET_BRIGHTNESS == 110
V1_CMD_UPDATE_BITMAP == 197

V2_CMD_HELLO == 202
V2_CMD_SET_ORIENTATION == 203
V2_CMD_UPDATE_BITMAP == 204
V2_CMD_SET_BACKLIGHT == 205
V2_CMD_SET_BRIGHTNESS == 206

\* bytearray(b'HELLO')
HELLO == <<72, 69, 76, 76, 79>>

\* ------------------------------------------------------------------- bounds

\* time.time() when the driver is constructed, and the last tick modelled
StartTime == 3
MaxTime == 6
\* how much longer than asked time.sleep may take
MaxOversleep == 1
\* how long the pixel data of one update_region may take to write
MaxTransfer == 1

\* -------------------------------------------------- Python integer operators

\* x >> n and x << n on Python's unbounded integers (>> rounds down)
Pow2(n) == 2 ^ n
Shr(x, n) == x \div Pow2(n)
Shl(x, n) == x * Pow2(n)

\* x & (2^n - 1): the low n bits, also of a negative x (two's complement)
LowBits(x, n) == x % Pow2(n)

RECURSIVE NatAnd(_, _)
NatAnd(a, b) ==
    IF a = 0 \/ b = 0 THEN 0
    ELSE (IF a % 2 = 1 /\ b % 2 = 1 THEN 1 ELSE 0) + 2 * NatAnd(a \div 2, b \div 2)

RECURSIVE BitwiseOr(_, _)
BitwiseOr(a, b) ==
    IF a = 0 THEN b
    ELSE IF b = 0 THEN a
    ELSE (IF a % 2 = 1 \/ b % 2 = 1 THEN 1 ELSE 0) + 2 * BitwiseOr(a \div 2, b \div 2)

\* a | b for a, b in 0..15, as a table: entry 16 * a + b + 1
OrOfNibbles == SubSeq([i \in 1..256 |-> BitwiseOr((i - 1) \div 16, (i - 1) % 16)], 1, 256)

\* a | b for a, b >= 0, four bits at a time
RECURSIVE NatOr(_, _)
NatOr(a, b) ==
    IF a = 0 THEN b
    ELSE IF b = 0 THEN a
    ELSE OrOfNibbles[16 * (a % 16) + (b % 16) + 1] + 16 * NatOr(a \div 16, b \div 16)

\* a | b on Python integers; ~x is -1 - x
BitOr(a, b) ==
    IF a >= 0 /\ b >= 0 THEN NatOr(a, b)
    ELSE IF a < 0 /\ b < 0 THEN (0 - 1) - NatAnd((0 - 1) - a, (0 - 1) - b)
    ELSE IF a < 0 THEN (0 - 1) - (((0 - 1) - a) - NatAnd((0 - 1) - a, b))
    ELSE (0 - 1) - (((0 - 1) - b) - NatAnd((0 - 1) - b, a))

\* bool(state) for the values a caller passes to enable()
Bool(state) == state \notin {"False", "0", "None"}

\* s[a:b] for 0 <= a: clipped to the length of s
Slice(s, a, b) ==
    LET hi == IF b < Len(s) THEN b ELSE Len(s)
    IN  IF hi <= a THEN <<>> ELSE [i \in 1..(hi - a) |-> s[a + i]]

\* list(f) for f with domain 1..n: every element evaluated, once
List(f, n) == SubSeq(f, 1, n)

\* reversed(s)
Reversed(s) ==
    LET n == Len(s)
    IN  [i \in 1..n |-> s[n + 1 - i]]

\* b''.join(parts) / list.extend over a sequence of sequences: the first k parts in
\* order, joined by halves
RECURSIVE JoinUpTo(_, _)
JoinUpTo(parts, k) ==
    IF k = 0 THEN <<>>
    ELSE IF k = 1 THEN parts[1]
    ELSE LET h == k \div 2
         IN  JoinUpTo(SubSeq(parts, 1, h), h) \o JoinUpTo(SubSeq(parts, h + 1, k), k - h)
Join(parts) == JoinUpTo(parts, Len(parts))

\* bytearray.extend / append accept only integers in range(0, 256)
IsBytes(s) == \A i \in 1..Len(s) : s[i] \in 0..255

\* -------------------------------------------------------------------- state

VARIABLES
    variant,            \* 1: TuringDisplayVariant1, 2: TuringDisplayVariant2
    pc,                 \* "new": handshake pending, "ready": constructed, "failed": __init__ raised
    _orientation,
    _invert,
    _brightness,
    _enable,
    last_bitmap_time,
    now,                \* time.time()
    call,               \* the most recent step: [op, args]
    result,             \* "ok", or the exception the most recent call raised
    written,            \* the device.write calls of the most recent call, in order
    ret,                \* what the most recent apply_inversion returned (else <<>>)
    caller_rgb_data,    \* the list the caller passed as rgb_data, as the call left it (else <<>>)
    lastScale,          \* history: <<scale>> of the last brightness call that returned, else <<>>
    lastEnableCmd       \* history: "on"/"off" for the last command enable() wrote, else "none"

vars == <<variant, pc, _orientation, _invert, _brightness, _enable, last_bitmap_time,
          now, call, result, written, ret, caller_rgb_data, lastScale, lastEnableCmd>>

DisplayState == <<_orientation, _invert, _brightness, _enable, last_bitmap_time>>

inter_bitmap_delay == INTER_BITMAP_DELAY

\* a width that ignores the orientation
self_width_native == WIDTH

\* the width and height properties
self_width == IF _orientation = ORIENTATION_PORTRAIT THEN WIDTH ELSE HEIGHT
self_height == IF _orientation = ORIENTATION_PORTRAIT THEN HEIGHT ELSE WIDTH

Init ==
    /\ variant \in {1, 2}
    /\ pc = IF variant = 1 THEN "ready" ELSE "new"
    /\ _orientation = ORIENTATION_PORTRAIT
    /\ _invert = 0
    /\ _brightness = 0
    /\ _enable = TRUE
    /\ last_bitmap_time = 0
    /\ now = StartTime
    /\ call = [op |-> "new", args |-> <<>>]
    /\ result = "ok"
    /\ written = <<>>
    /\ ret = <<>>
    /\ caller_rgb_data = <<>>
    /\ lastScale = <<>>
    /\ lastEnableCmd = "none"

\* ------------------------------------------------------------- send_command

\* time.sleep(inter_bitmap_delay - elapsed) if elapsed < inter_bitmap_delay
SleepFor(elapsed) ==
    IF elapsed < inter_bitmap_delay THEN inter_bitmap_delay - elapsed ELSE 0

\* by how much a time.sleep started at t may overrun
Oversleeps(t) ==
    IF SleepFor(t - last_bitmap_time) > 0 THEN 0..MaxOversleep ELSE {0}

\* send_command without the wait
WriteTime_at_once(t, over) == t

\* the time at which send_command, entered at t, reaches device.write
WriteTime(t, over) ==
    IF SleepFor(t - last_bitmap_time) > 0
    THEN t + SleepFor(t - last_bitmap_time) + over
    ELSE t

Zeros(n) == [i \in 1..n |-> 0]

\* payload=None
V1_default_payload == Zeros(5)
V2_default_payload == Zeros(8)

\* a frame built without the padding
V1_frame_unpadded(cmd, payload) == payload \o <<cmd>>

V1_frame(cmd, payload) ==
    LET padded == IF Len(payload) < 5 THEN payload \o Zeros(5 - Len(payload)) ELSE payload
    IN  padded \o <<cmd>>

\* a frame built without the padding
V2_frame_unpadded(cmd, payload) == <<cmd>> \o payload \o <<cmd>>

V2_frame(cmd, payload) ==
    LET padded == IF Len(payload) < 8 THEN payload \o Zeros(8 - Len(payload)) ELSE payload
    IN  <<cmd>> \o padded \o <<cmd>>

\* the device.write of send_command(cmd, payload) entered at time t
V1_send_command(cmd, payload, t, over) ==
    [kind |-> "cmd", data |-> V1_frame(cmd, payload), at |-> WriteTime(t, over)]

V2_send_command(cmd, payload, t, over) ==
    [kind |-> "cmd", data |-> V2_frame(cmd, payload), at |-> WriteTime(t, over)]

\* time.time() once the writes of a call entered at t are done
After(writes, t) == IF writes = <<>> THEN t ELSE writes[Len(writes)].at

\* a list that had its order reversed in place
RgbDataAfter_reversed(rgb_data) == Reversed(rgb_data)

\* the caller's list after apply_inversion or update_region: both only slice it and
\* iterate over it, and assign their results to new lists and to local names
RgbDataAfter(rgb_data) == rgb_data

\* the operations that are handed a pixel list
TakesRgbData(op) == op \in {"update_region", "apply_inversion", "apply_inversion_again"}

\* what a step leaves in the observation variables
Called(op, args, res, writes) ==
    /\ call' = [op |-> op, args |-> args]
    /\ result' = res
    /\ written' = writes
    /\ caller_rgb_data' = IF TakesRgbData(op) THEN RgbDataAfter(args[5]) ELSE <<>>

\* ---------------------------------------------------------- apply_inversion

\* rows that are put in reverse order under INVERT_XY but not reversed themselves
InvertedRows_rows_only(width, height, rgb_data) ==
    IF _invert \in {INVERT_Y, INVERT_XY}
    THEN [row \in 1..height |->
            Slice(rgb_data, height * width - row * width,
                            height * width - row * width + width)]
    ELSE [k \in 1..((width * height + width - 1) \div width) |->
            Reversed(Slice(rgb_data, (k - 1) * width, (k - 1) * width + width))]

\* the rows apply_inversion appends to new_rgb_data, in order
InvertedRows(width, height, rgb_data) ==
    IF _invert = INVERT_Y
    THEN [row \in 1..height |->
            Slice(rgb_data, height * width - row * width,
                            height * width - row * width + width)]
    ELSE IF _invert = INVERT_XY
    THEN [row \in 1..height |->
            Reversed(Slice(rgb_data, height * width - row * width,
                                     height * width - row * width + width))]
    ELSE [k \in 1..((width * height + width - 1) \div width) |->
            Reversed(Slice(rgb_data, (k - 1) * width, (k - 1) * width + width))]

\* apply_inversion without its early return for no inversion
apply_inversion_always(x, y, width, height, rgb_data) ==
    LET x1 == x + width
        y1 == y + height
        new_rgb_data == Join(InvertedRows(width, height, rgb_data))
        ny == IF _invert \in {INVERT_Y, INVERT_XY} THEN self_height - y1 ELSE y
        nx == IF _invert \in {INVERT_X, INVERT_XY} THEN self_width - x1 ELSE x
    IN  <<nx, ny, width, height, new_rgb_data>>

\* returns <<x, y, width, height, rgb_data>>
apply_inversion(x, y, width, height, rgb_data) ==
    IF _invert = 0
    THEN <<x, y, width, height, rgb_data>>
    ELSE LET x1 == x + width
             y1 == y + height
             new_rgb_data == Join(InvertedRows(width, height, rgb_data))
             ny == IF _invert \in {INVERT_Y, INVERT_XY} THEN self_height - y1 ELSE y
             nx == IF _invert \in {INVERT_X, INVERT_XY} THEN self_width - x1 ELSE x
         IN  <<nx, ny, width, height, new_rgb_data>>

\* ------------------------------------------------------------ update_region

\* a pixel that keeps five bits of green
Halfword_five_green(colour) ==
    BitOr(BitOr(Shl(Shr(colour[1], 3), 11), Shl(Shr(colour[2], 3), 5)), Shr(colour[3], 3))

\* (r<<11) | (g<<5) | b for r = colour[0] >> 3, g = colour[1] >> 2, b = colour[2] >> 3
Halfword(colour) ==
    BitOr(BitOr(Shl(Shr(colour[1], 3), 11), Shl(Shr(colour[2], 2), 5)), Shr(colour[3], 3))

\* struct.pack('<H', v) and struct.pack('>H', v)
PackLE(v) == <<v % 256, v \div 256>>
PackBE(v) == <<v \div 256, v % 256>>

V1_pack(colour) == PackLE(Halfword(colour))
V2_pack(colour) == PackBE(Halfword(colour))

\* b''.join(accumulator) for the pixels of one chunk: two bytes per pixel
V1_chunk(colours) ==
    LET n == Len(colours)
        packed == List([p \in 1..n |-> V1_pack(colours[p])], n)
    IN  [i \in 1..(2 * n) |-> packed[(i + 1) \div 2][((i + 1) % 2) + 1]]
V2_chunk(colours) ==
    LET n == Len(colours)
        packed == List([p \in 1..n |-> V2_pack(colours[p])], n)
    IN  [i \in 1..(2 * n) |-> packed[(i + 1) \div 2][((i + 1) % 2) + 1]]

flush_size == WIDTH * 8

\* len(range(0, width * height, flush_size))
ChunkCount(width, height) ==
    IF width * height <= 0 THEN 0 ELSE (width * height + flush_size - 1) \div flush_size

\* a chunk loop that never flushes before the end of the buffer
ChunkPixels_to_end(rgb_data, k) ==
    Slice(rgb_data, (k - 1) * flush_size, Len(rgb_data))

\* the slice of rgb_data the k-th pass of the loop packs (start = (k-1) * flush_size)
ChunkPixels(rgb_data, k) ==
    Slice(rgb_data, (k - 1) * flush_size, (k - 1) * flush_size + flush_size)

\* the byte strings the chunk loop hands to device.write, in order
V1_chunks(width, height, rgb_data) ==
    List([k \in 1..ChunkCount(width, height) |-> V1_chunk(ChunkPixels(rgb_data, k))],
         ChunkCount(width, height))
V2_chunks(width, height, rgb_data) ==
    List([k \in 1..ChunkCount(width, height) |-> V2_chunk(ChunkPixels(rgb_data, k))],
         ChunkCount(width, height))

\* a payload that drops the two low bits of y1 instead of the two high bits
V1_bitmap_payload_low_y1(x, y, x1, y1) ==
    << Shr(x, 2),
       BitOr(Shl(LowBits(x, 2), 6), Shr(y, 4)),
       BitOr(Shl(LowBits(y, 4), 4), Shr(x1, 6)),
       BitOr(Shl(LowBits(x1, 6), 2), LowBits(y1, 2)),
       LowBits(y1, 8) >>

V1_bitmap_payload(x, y, x1, y1) ==
    << Shr(x, 2),
       BitOr(Shl(LowBits(x, 2), 6), Shr(y, 4)),
       BitOr(Shl(LowBits(y, 4), 4), Shr(x1, 6)),
       BitOr(Shl(LowBits(x1, 6), 2), Shr(y1, 8)),
       LowBits(y1, 8) >>

V2_bitmap_payload(x, y, x1, y1) ==
    << LowBits(Shr(x, 8), 8), LowBits(x, 8),
       LowBits(Shr(y, 8), 8), LowBits(y, 8),
       LowBits(Shr(x1, 8), 8), LowBits(x1, 8),
       LowBits(Shr(y1, 8), 8), LowBits(y1, 8) >>

\* update_region without its assertion
EnoughData_unchecked(width, height, rgb_data) == TRUE

\* assert len(rgb_data) >= width * height
EnoughData(width, height, rgb_data) == Len(rgb_data) >= width * height

\* update_region up to its writes: [result, payload, chunks].  bytearray.extend raises
\* ValueError for a payload entry outside range(0, 256), before anything is written
V1_update_region_outcome(x, y, width, height, rgb_data) ==
    IF ~EnoughData(width, height, rgb_data)
    THEN [result |-> "AssertionError", payload |-> <<>>, chunks |-> <<>>]
    ELSE LET inv == apply_inversion(x, y, width, height, rgb_data)
             payload == V1_bitmap_payload(inv[1], inv[2],
                                          inv[1] + inv[3] - 1, inv[2] + inv[4] - 1)
         IN  IF IsBytes(payload)
             THEN [result |-> "ok", payload |-> payload,
                   chunks |-> V1_chunks(inv[3], inv[4], inv[5])]
             ELSE [result |-> "ValueError", payload |-> payload, chunks |-> <<>>]

V2_update_region_outcome(x, y, width, height, rgb_data) ==
    IF ~EnoughData(width, height, rgb_data)
    THEN [result |-> "AssertionError", payload |-> <<>>, chunks |-> <<>>]
    ELSE LET inv == apply_inversion(x, y, width, height, rgb_data)
             payload == V2_bitmap_payload(inv[1], inv[2],
                                          inv[1] + inv[3] - 1, inv[2] + inv[4] - 1)
         IN  IF IsBytes(payload)
             THEN [result |-> "ok", payload |-> payload,
                   chunks |-> V2_chunks(inv[3], inv[4], inv[5])]
             ELSE [result |-> "ValueError", payload |-> payload, chunks |-> <<>>]

\* the device.write calls of an update_region entered at time t: the command, then
\* every chunk
V1_region_writes(o, t, over) ==
    IF o.result # "ok" THEN <<>>
    ELSE LET cmd == V1_send_command(V1_CMD_UPDATE_BITMAP, o.payload, t, over)
         IN  <<cmd>> \o [k \in 1..Len(o.chunks) |->
                            [kind |-> "pix", data |-> o.chunks[k], at |-> cmd.at]]

V2_region_writes(o, t, over) ==
    IF o.result # "ok" THEN <<>>
    ELSE LET cmd == V2_send_command(V2_CMD_UPDATE_BITMAP, o.payload, t, over)
         IN  <<cmd>> \o [k \in 1..Len(o.chunks) |->
                            [kind |-> "pix", data |-> o.chunks[k], at |-> cmd.at]]

\* self.last_bitmap_time = time.time(), dur after the command was written
CompletionTime(writes, t, dur) == After(writes, t) + dur

\* ------------------------------------------------------------------- inputs

EnableArgs == {"True", "False", "0"}
Scales == {0 - 1, 0, 200, 256}
Backlights == {<<255, 128, 0>>, <<256, 0, 0>>, <<0, 0 - 1, 0>>, <<0, 0, 256>>}
Orientations == {ORIENTATION_PORTRAIT, ORIENTATION_LANDSCAPE}
\* a value that is neither orientation
OtherOrientations == {2}
Inversions == {0, INVERT_X, INVERT_Y, INVERT_XY}

\* what device.read(10) may return: the echo, nothing, nine bytes, a wrong first
\* byte, a wrong last byte, a wrong token, ten zero bytes
GoodResponse == <<V2_CMD_HELLO>> \o HELLO \o Zeros(3) \o <<V2_CMD_HELLO>>
Responses ==
    { GoodResponse,
      <<>>,
      SubSeq(GoodResponse, 1, 9),
      <<0>> \o SubSeq(GoodResponse, 2, 10),
      SubSeq(GoodResponse, 1, 9) \o <<0>>,
      <<V2_CMD_HELLO, 72, 69, 76, 76, 80, 0, 0, 0, V2_CMD_HELLO>>,
      Zeros(10) }

\* a buffer of n pixels, all different in their packed form up to n = 65536
Colour(i) == <<(8 * i + 7) % 256, (4 * (i \div 32) + 3) % 256, (8 * (i \div 2048) + 5) % 256>>
Pixels(n) == [i \in 1..n |-> Colour(i)]

\* every scale brightness accepts, and the two nearest it refuses
AllScales == 0 - 1 .. 256

\* colours: every value of one channel with a few values of the other two
FewChannels == {0, 3, 100, 255}
Colours(few) ==
    { <<r, g, b>> : r \in 0..255, g \in few, b \in few }
    \cup { <<r, g, b>> : r \in few, g \in 0..255, b \in few }
    \cup { <<r, g, b>> : r \in few, g \in few, b \in 0..255 }

\* inclusive corners <<x, y, x1, y1>> of rectangles inside the portrait or the
\* landscape display: every value of one coordinate with a few values of the others
FewCoordinates == {0, 261, 319}
Corners(few) ==
    { c \in ({ <<x, y, x1, y1>> : x \in 0..479, y \in few,
                                  x1 \in few, y1 \in few }
             \cup { <<x, y, x1, y1>> : x \in few, y \in 0..479,
                                       x1 \in few, y1 \in few }
             \cup { <<x, y, x1, y1>> : x \in few, y \in few,
                                       x1 \in 0..479, y1 \in few }
             \cup { <<x, y, x1, y1>> : x \in few, y \in few,
                                       x1 \in few, y1 \in 0..479 }) :
        /\ c[1] <= c[3] /\ c[2] <= c[4]
        /\ \/ c[3] < WIDTH /\ c[4] < HEIGHT
           \/ c[3] < HEIGHT /\ c[4] < WIDTH }

\* <<x, y, width, height>>
SmallRegions == {<<1, 2, 3, 2>>, <<318, 478, 2, 2>>}
BigRegions == {<<0, 0, 320, 9>>}

\* <<x, y, width, height, rgb_data>>: a buffer one pixel short, exact, three too long
RegionInputs(regions) ==
    { <<r[1], r[2], r[3], r[4], Pixels(r[3] * r[4] + extra)>> :
        r \in regions, extra \in {0 - 1, 0, 3} }

ControlInputs == RegionInputs({<<0, 0, 2, 2>>})
\* a large region comes with a buffer of exactly its size
BitmapInputs ==
    RegionInputs(SmallRegions) \cup { <<r[1], r[2], r[3], r[4], Pixels(r[3] * r[4])>> : r \in BigRegions }

\* ------------------------------------------------------------------ actions

\* TuringDisplayVariant2.__init__ after the base __init__: the hello and its answer
Handshake(response) ==
    IF Len(response) # 10 THEN "TuringProtocolError"
    ELSE IF response[1] # V2_CMD_HELLO \/ response[Len(response)] # V2_CMD_HELLO
    THEN "TuringProtocolError"
    ELSE IF SubSeq(response, 2, 6) # HELLO THEN "TuringError"
    ELSE "ok"

V2_init(response) ==
    /\ variant = 2 /\ pc = "new"
    /\ \E over \in Oversleeps(now) :
         LET w == V2_send_command(V2_CMD_HELLO, HELLO, now, over)
         IN  /\ w.at <= MaxTime
             /\ Called("__init__", <<response>>, Handshake(response), <<w>>)
             /\ now' = w.at
    /\ pc' = IF Handshake(response) = "ok" THEN "ready" ELSE "failed"
    /\ UNCHANGED <<variant, _orientation, _invert, _brightness, _enable,
                   last_bitmap_time, ret, lastScale, lastEnableCmd>>

\* time passes between two calls
Tick ==
    /\ pc = "ready"
    /\ now < MaxTime
    /\ now' = now + 1
    /\ Called("tick", <<>>, "ok", <<>>)
    /\ UNCHANGED <<variant, pc, _orientation, _invert, _brightness, _enable,
                   last_bitmap_time, ret, lastScale, lastEnableCmd>>

V1_clear ==
    /\ variant = 1 /\ pc = "ready"
    /\ \E over \in Oversleeps(now) :
         LET w == V1_send_command(V1_CMD_CLEAR, V1_default_payload, now, over)
         IN  /\ w.at <= MaxTime
             /\ Called("clear", <<>>, "ok", <<w>>)
             /\ now' = w.at
    /\ UNCHANGED <<variant, pc, _orientation, _invert, _brightness, _enable,
                   last_bitmap_time, ret, lastScale, lastEnableCmd>>

\* variant 1 has no orientation of its own
Base_orientation(state) ==
    /\ variant = 1 /\ pc = "ready"
    /\ _orientation' = state
    /\ Called("orientation", <<state>>, "TuringNotImplementedError", <<>>)
    /\ UNCHANGED <<variant, pc, _invert, _brightness, _enable, last_bitmap_time,
                   now, ret, lastScale, lastEnableCmd>>

ValidOrientation(state) == state \in {ORIENTATION_PORTRAIT, ORIENTATION_LANDSCAPE}

V2_orientation_writes(state, t, over) ==
    <<V2_send_command(V2_CMD_SET_ORIENTATION, <<state>>, t, over)>>

V2_orientation(state) ==
    /\ variant = 2 /\ pc = "ready"
    /\ \E over \in Oversleeps(now) :
         LET writes == IF ValidOrientation(state)
                       THEN V2_orientation_writes(state, now, over) ELSE <<>>
         IN  /\ After(writes, now) <= MaxTime
             /\ Called("orientation", <<state>>,
                       IF ValidOrientation(state) THEN "ok" ELSE "AssertionError", writes)
             /\ now' = After(writes, now)
    /\ _orientation' = IF ValidOrientation(state) THEN state ELSE _orientation
    /\ UNCHANGED <<variant, pc, _invert, _brightness, _enable, last_bitmap_time,
                   ret, lastScale, lastEnableCmd>>

\* an invert that only knows the vertical inversion
Base_invert_vertical(state) ==
    /\ pc = "ready"
    /\ _invert' = IF state = 0 THEN 0 ELSE INVERT_Y
    /\ Called("invert", <<state>>, "ok", <<>>)
    /\ UNCHANGED <<variant, pc, _orientation, _brightness, _enable, last_bitmap_time,
                   now, ret, lastScale, lastEnableCmd>>

Base_invert(state) ==
    /\ pc = "ready"
    /\ _invert' = state
    /\ Called("invert", <<state>>, "ok", <<>>)
    /\ UNCHANGED <<variant, pc, _orientation, _brightness, _enable, last_bitmap_time,
                   now, ret, lastScale, lastEnableCmd>>

\* variant 1 has no backlight of its own
Base_backlight(red, green, blue) ==
    /\ variant = 1 /\ pc = "ready"
    /\ Called("backlight", <<red, green, blue>>, "TuringNotImplementedError", <<>>)
    /\ UNCHANGED <<variant, pc, _orientation, _invert, _brightness, _enable,
                   last_bitmap_time, now, ret, lastScale, lastEnableCmd>>

ValidChannel(c) == 0 <= c /\ c < 256

V2_backlight(red, green, blue) ==
    /\ variant = 2 /\ pc = "ready"
    /\ \E over \in Oversleeps(now) :
         LET ok == ValidChannel(red) /\ ValidChannel(green) /\ ValidChannel(blue)
             writes == IF ok
                       THEN <<V2_send_command(V2_CMD_SET_BACKLIGHT, <<red, green, blue>>,
                                              now, over)>>
                       ELSE <<>>
         IN  /\ After(writes, now) <= MaxTime
             /\ Called("backlight", <<red, green, blue>>,
                       IF ok THEN "ok" ELSE "AssertionError", writes)
             /\ now' = After(writes, now)
    /\ UNCHANGED <<variant, pc, _orientation, _invert, _brightness, _enable,
                   last_bitmap_time, ret, lastScale, lastEnableCmd>>

\* an enable that writes its command on every call
V1_enable_writes_every_call(state, t, over) ==
    IF Bool(state)
    THEN <<V1_send_command(V1_CMD_SCREEN_ON, V1_default_payload, t, over)>>
    ELSE <<V1_send_command(V1_CMD_SCREEN_OFF, V1_default_payload, t, over)>>

\* what enable(state) writes
V1_enable_writes(state, t, over) ==
    IF _enable # Bool(state)
    THEN IF Bool(state)
         THEN <<V1_send_command(V1_CMD_SCREEN_ON, V1_default_payload, t, over)>>
         ELSE <<V1_send_command(V1_CMD_SCREEN_OFF, V1_default_payload, t, over)>>
    ELSE <<>>

\* an enable that restores full brightness instead of the remembered one
V2_enable_writes_full(state, t, over) ==
    IF _enable # Bool(state)
    THEN IF Bool(state)
         THEN <<V2_send_command(V2_CMD_SET_BRIGHTNESS, <<255>>, t, over)>>
         ELSE <<V2_send_command(V2_CMD_SET_BRIGHTNESS, <<0>>, t, over)>>
    ELSE <<>>

V2_enable_writes(state, t, over) ==
    IF _enable # Bool(state)
    THEN IF Bool(state)
         THEN <<V2_send_command(V2_CMD_SET_BRIGHTNESS, <<_brightness>>, t, over)>>
         ELSE <<V2_send_command(V2_CMD_SET_BRIGHTNESS, <<0>>, t, over)>>
    ELSE <<>>

\* history of the commands enable() wrote
EnableCmdAfter(state, writes) ==
    IF writes = <<>> THEN lastEnableCmd ELSE IF Bool(state) THEN "on" ELSE "off"

V1_enable(state) ==
    /\ variant = 1 /\ pc = "ready"
    /\ \E over \in Oversleeps(now) :
         LET writes == V1_enable_writes(state, now, over)
         IN  /\ After(writes, now) <= MaxTime
             /\ Called("enable", <<state>>, "ok", writes)
             /\ now' = After(writes, now)
             /\ lastEnableCmd' = EnableCmdAfter(state, writes)
    /\ _enable' = Bool(state)
    /\ UNCHANGED <<variant, pc, _orientation, _invert, _brightness, last_bitmap_time,
                   ret, lastScale>>

V2_enable(state) ==
    /\ variant = 2 /\ pc = "ready"
    /\ \E over \in Oversleeps(now) :
         LET writes == V2_enable_writes(state, now, over)
         IN  /\ After(writes, now) <= MaxTime
             /\ Called("enable", <<state>>, "ok", writes)
             /\ now' = After(writes, now)
             /\ lastEnableCmd' = EnableCmdAfter(state, writes)
    /\ _enable' = Bool(state)
    /\ UNCHANGED <<variant, pc, _orientation, _invert, _brightness, last_bitmap_time,
                   ret, lastScale>>

\* brightness without its assertion
ValidScale_unchecked(scale) == TRUE

\* assert 0 <= scale < 256
ValidScale(scale) == 0 <= scale /\ scale < 256

\* a brightness that sends the scale as it is
V1_brightness_writes_plain(scale, t, over) ==
    <<V1_send_command(V1_CMD_SET_BRIGHTNESS, <<scale>>, t, over)>>

V1_brightness_writes(scale, t, over) ==
    <<V1_send_command(V1_CMD_SET_BRIGHTNESS, <<255 - scale>>, t, over)>>

\* a brightness that writes whether or not the display is enabled
V2_brightness_writes_always(scale, t, over) ==
    <<V2_send_command(V2_CMD_SET_BRIGHTNESS, <<scale>>, t, over)>>

V2_brightness_writes(scale, t, over) ==
    IF _enable
    THEN <<V2_send_command(V2_CMD_SET_BRIGHTNESS, <<scale>>, t, over)>>
    ELSE <<>>

V1_brightness(scale) ==
    /\ variant = 1 /\ pc = "ready"
    /\ \E over \in Oversleeps(now) :
         LET writes == IF ValidScale(scale) THEN V1_brightness_writes(scale, now, over)
                       ELSE <<>>
         IN  /\ After(writes, now) <= MaxTime
             /\ Called("brightness", <<scale>>,
                       IF ValidScale(scale) THEN "ok" ELSE "AssertionError", writes)
             /\ now' = After(writes, now)
    /\ _brightness' = IF ValidScale(scale) THEN scale ELSE _brightness
    /\ lastScale' = IF ValidScale(scale) THEN <<scale>> ELSE lastScale
    /\ UNCHANGED <<variant, pc, _orientation, _invert, _enable, last_bitmap_time,
                   ret, lastEnableCmd>>

V2_brightness(scale) ==
    /\ variant = 2 /\ pc = "ready"
    /\ \E over \in Oversleeps(now) :
         LET writes == IF ValidScale(scale) THEN V2_brightness_writes(scale, now, over)
                       ELSE <<>>
         IN  /\ After(writes, now) <= MaxTime
             /\ Called("brightness", <<scale>>,
                       IF ValidScale(scale) THEN "ok" ELSE "AssertionError", writes)
             /\ now' = After(writes, now)
    /\ _brightness' = IF ValidScale(scale) THEN scale ELSE _brightness
    /\ lastScale' = IF ValidScale(scale) THEN <<scale>> ELSE lastScale
    /\ UNCHANGED <<variant, pc, _orientation, _invert, _enable, last_bitmap_time,
                   ret, lastEnableCmd>>

V1_update_region(x, y, width, height, rgb_data) ==
    /\ variant = 1 /\ pc = "ready"
    /\ \E o \in {V1_update_region_outcome(x, y, width, height, rgb_data)} :
         \E over \in Oversleeps(now), dur \in 0..MaxTransfer :
           \E writes \in {V1_region_writes(o, now, over)} :
             LET done == IF o.result = "ok" THEN CompletionTime(writes, now, dur) ELSE now
             IN  /\ done <= MaxTime
                 /\ Called("update_region", <<x, y, width, height, rgb_data>>,
                           o.result, writes)
                 /\ now' = done
                 /\ last_bitmap_time' = IF o.result = "ok" THEN done ELSE last_bitmap_time
    /\ UNCHANGED <<variant, pc, _orientation, _invert, _brightness, _enable,
                   ret, lastScale, lastEnableCmd>>

V2_update_region(x, y, width, height, rgb_data) ==
    /\ variant = 2 /\ pc = "ready"
    /\ \E o \in {V2_update_region_outcome(x, y, width, height, rgb_data)} :
         \E over \in Oversleeps(now), dur \in 0..MaxTransfer :
           \E writes \in {V2_region_writes(o, now, over)} :
             LET done == IF o.result = "ok" THEN CompletionTime(writes, now, dur) ELSE now
             IN  /\ done <= MaxTime
                 /\ Called("update_region", <<x, y, width, height, rgb_data>>,
                           o.result, writes)
                 /\ now' = done
                 /\ last_bitmap_time' = IF o.result = "ok" THEN done ELSE last_bitmap_time
    /\ UNCHANGED <<variant, pc, _orientation, _invert, _brightness, _enable,
                   ret, lastScale, lastEnableCmd>>

\* a blank list that is one row short
blank_short == List([i \in 1..(WIDTH * (HEIGHT - 1)) |-> <<0, 0, 0>>], WIDTH * (HEIGHT - 1))

\* [(0, 0, 0)] * (self.WIDTH * self.HEIGHT)
blank == List([i \in 1..(WIDTH * HEIGHT) |-> <<0, 0, 0>>], WIDTH * HEIGHT)

\* the software clear, which variant 2 inherits
Base_clear ==
    /\ variant = 2 /\ pc = "ready"
    /\ WriteTime(now, 0) <= MaxTime
    /\ \E o \in {V2_update_region_outcome(0, 0, self_width, self_height, blank)} :
         \E over \in Oversleeps(now), dur \in 0..MaxTransfer :
           \E writes \in {V2_region_writes(o, now, over)} :
             LET done == IF o.result = "ok" THEN CompletionTime(writes, now, dur) ELSE now
             IN  /\ done <= MaxTime
                 /\ Called("clear", <<>>, o.result, writes)
                 /\ now' = done
                 /\ last_bitmap_time' = IF o.result = "ok" THEN done ELSE last_bitmap_time
    /\ UNCHANGED <<variant, pc, _orientation, _invert, _brightness, _enable,
                   ret, lastScale, lastEnableCmd>>

\* a caller's own call of apply_inversion, and a second call on what it returned
Base_apply_inversion(x, y, width, height, rgb_data) ==
    /\ pc = "ready"
    /\ ret' = apply_inversion(x, y, width, height, rgb_data)
    /\ Called("apply_inversion", <<x, y, width, height, rgb_data>>, "ok", <<>>)
    /\ UNCHANGED <<variant, pc, _orientation, _invert, _brightness, _enable,
                   last_bitmap_time, now, lastScale, lastEnableCmd>>

Base_apply_inversion_again ==
    /\ pc = "ready"
    /\ call.op = "apply_inversion"
    /\ ret' = apply_inversion(ret[1], ret[2], ret[3], ret[4], ret[5])
    /\ Called("apply_inversion_again", call.args, "ok", <<>>)
    /\ UNCHANGED <<variant, pc, _orientation, _invert, _brightness, _enable,
                   last_bitmap_time, now, lastScale, lastEnableCmd>>

\* ----------------------------------------------------------- specifications

\* every operation of both drivers but the software clear, on small regions
Next ==
    \/ \E response \in Responses : V2_init(response)
    \/ Tick
    \/ V1_clear
    \/ \E state \in Orientations : Base_orientation(state)
    \/ \E state \in Orientations \cup OtherOrientations : V2_orientation(state)
    \/ \E state \in Inversions : Base_invert(state)
    \/ \E c \in Backlights : Base_backlight(c[1], c[2], c[3])
    \/ \E c \in Backlights : V2_backlight(c[1], c[2], c[3])
    \/ \E state \in EnableArgs : V1_enable(state)
    \/ \E state \in EnableArgs : V2_enable(state)
    \/ \E scale \in Scales : V1_brightness(scale)
    \/ \E scale \in Scales : V2_brightness(scale)
    \/ \E r \in ControlInputs : V1_update_region(r[1], r[2], r[3], r[4], r[5])
    \/ \E r \in ControlInputs : V2_update_region(r[1], r[2], r[3], r[4], r[5])

Spec == Init /\ [][Next]_vars

\* region updates on small and large regions, under every orientation and inversion
NextBitmap ==
    \/ \E response \in Responses : V2_init(response)
    \/ \E state \in Orientations : Base_orientation(state)
    \/ \E state \in Orientations \cup OtherOrientations : V2_orientation(state)
    \/ \E state \in Inversions : Base_invert(state)
    \/ \E r \in BitmapInputs : V1_update_region(r[1], r[2], r[3], r[4], r[5])
    \/ \E r \in BitmapInputs : V2_update_region(r[1], r[2], r[3], r[4], r[5])

SpecBitmap == Init /\ [][NextBitmap]_vars

\* apply_inversion called once and twice, under every orientation and inversion
NextInversion ==
    \/ \E response \in Responses : V2_init(response)
    \/ \E state \in Orientations : Base_orientation(state)
    \/ \E state \in Orientations \cup OtherOrientations : V2_orientation(state)
    \/ \E state \in Inversions : Base_invert(state)
    \/ \E r \in BitmapInputs : Base_apply_inversion(r[1], r[2], r[3], r[4], r[5])
    \/ Base_apply_inversion_again

SpecInversion == Init /\ [][NextInversion]_vars

\* apply_inversion called by the caller and by update_region, on small regions
NextTransform ==
    \/ \E response \in Responses : V2_init(response)
    \/ \E state \in Orientations : Base_orientation(state)
    \/ \E state \in Orientations \cup OtherOrientations : V2_orientation(state)
    \/ \E state \in Inversions : Base_invert(state)
    \/ \E r \in RegionInputs(SmallRegions) :
          Base_apply_inversion(r[1], r[2], r[3], r[4], r[5])
    \/ Base_apply_inversion_again
    \/ \E r \in RegionInputs(SmallRegions) : V1_update_region(r[1], r[2], r[3], r[4], r[5])
    \/ \E r \in RegionInputs(SmallRegions) : V2_update_region(r[1], r[2], r[3], r[4], r[5])

SpecTransform == Init /\ [][NextTransform]_vars

\* variant 1 brightness on every scale, enabled and disabled
NextBrightness ==
    \/ \E state \in EnableArgs : V1_enable(state)
    \/ \E scale \in AllScales : V1_brightness(scale)

SpecBrightness == Init /\ [][NextBrightness]_vars

\* the body of the pixel loop of update_region on one colour of the buffer
V1_pack_colour ==
    /\ variant = 1 /\ pc = "ready"
    /\ call.op = "colour"
    /\ ret' = V1_pack(call.args[1])
    /\ Called("pack", call.args, "ok", <<>>)
    /\ UNCHANGED <<variant, pc, _orientation, _invert, _brightness, _enable,
                   last_bitmap_time, now, lastScale, lastEnableCmd>>

V2_pack_colour ==
    /\ variant = 2 /\ pc = "ready"
    /\ call.op = "colour"
    /\ ret' = V2_pack(call.args[1])
    /\ Called("pack", call.args, "ok", <<>>)
    /\ UNCHANGED <<variant, pc, _orientation, _invert, _brightness, _enable,
                   last_bitmap_time, now, lastScale, lastEnableCmd>>

\* a constructed display of either variant and one colour of a buffer
InitPack ==
    /\ variant \in {1, 2}
    /\ pc = "ready"
    /\ _orientation = ORIENTATION_PORTRAIT
    /\ _invert = 0
    /\ _brightness = 0
    /\ _enable = TRUE
    /\ last_bitmap_time = 0
    /\ now = StartTime
    /\ call \in { [op |-> "colour", args |-> <<colour>>] : colour \in Colours(FewChannels) }
    /\ result = "ok"
    /\ written = <<>>
    /\ ret = <<>>
    /\ caller_rgb_data = <<>>
    /\ lastScale = <<>>
    /\ lastEnableCmd = "none"

NextPack ==
    \/ V1_pack_colour
    \/ V2_pack_colour

SpecPack == InitPack /\ [][NextPack]_vars

\* a display constructed late enough that one clear fits before MaxTime
InitClear ==
    /\ variant \in {1, 2}
    /\ pc = IF variant = 1 THEN "ready" ELSE "new"
    /\ _orientation = ORIENTATION_PORTRAIT
    /\ _invert = 0
    /\ _brightness = 0
    /\ _enable = TRUE
    /\ last_bitmap_time = 0
    /\ now = MaxTime - 1
    /\ call = [op |-> "new", args |-> <<>>]
    /\ result = "ok"
    /\ written = <<>>
    /\ ret = <<>>
    /\ caller_rgb_data = <<>>
    /\ lastScale = <<>>
    /\ lastEnableCmd = "none"

\* clear on both variants, under every orientation and inversion
NextClear ==
    \/ \E response \in Responses : V2_init(response)
    \/ \E state \in Orientations : Base_orientation(state)
    \/ \E state \in Orientations : V2_orientation(state)
    \/ \E state \in Inversions : Base_invert(state)
    \/ \E state \in EnableArgs : V1_enable(state)
    \/ V1_clear
    \/ Base_clear

SpecClear == InitClear /\ [][NextClear]_vars

\* the payload update_region builds for the corners of the transformed region
V1_payload_of_corners ==
    /\ variant = 1 /\ pc = "ready"
    /\ call.op = "corners"
    /\ ret' = V1_bitmap_payload(call.args[1], call.args[2], call.args[3], call.args[4])
    /\ Called("payload", call.args, "ok", <<>>)
    /\ UNCHANGED <<variant, pc, _orientation, _invert, _brightness, _enable,
                   last_bitmap_time, now, lastScale, lastEnableCmd>>

V2_payload_of_corners ==
    /\ variant = 2 /\ pc = "ready"
    /\ call.op = "corners"
    /\ ret' = V2_bitmap_payload(call.args[1], call.args[2], call.args[3], call.args[4])
    /\ Called("payload", call.args, "ok", <<>>)
    /\ UNCHANGED <<variant, pc, _orientation, _invert, _brightness, _enable,
                   last_bitmap_time, now, lastScale, lastEnableCmd>>

\* a constructed display of either variant and the corners of one region
InitCorners ==
    /\ variant \in {1, 2}
    /\ pc = "ready"
    /\ _orientation = ORIENTATION_PORTRAIT
    /\ _invert = 0
    /\ _brightness = 0
    /\ _enable = TRUE
    /\ last_bitmap_time = 0
    /\ now = StartTime
    /\ call \in { [op |-> "corners", args |-> c] : c \in Corners(FewCoordinates) }
    /\ result = "ok"
    /\ written = <<>>
    /\ ret = <<>>
    /\ caller_rgb_data = <<>>
    /\ lastScale = <<>>
    /\ lastEnableCmd = "none"

NextCorners ==
    \/ V1_payload_of_corners
    \/ V2_payload_of_corners

SpecCorners == InitCorners /\ [][NextCorners]_vars

\* --------------------------------------------------------------- properties
\* In an action formula the unprimed variables are the state a call starts in, and
\* call', result', written' are the call made and what it did.

\* the frames as the device sees them
V1_Frame(cmd, p1) == <<p1, 0, 0, 0, 0, cmd>>
V2_Frame(cmd, p1) == <<cmd, p1, 0, 0, 0, 0, 0, 0, 0, cmd>>
HelloFrame == <<202, 72, 69, 76, 76, 79, 0, 0, 0, 202>>

\* C1: enable(state) writes a command exactly when bool(state) differs from the
\* enabled flag: screen on/off on variant 1, brightness on variant 2; enable(false)
\* after enable(false) writes at most one command between them; and enable never
\* writes an off (disable) command when the last command it wrote was one.
EnableWritesOnlyOnChange ==
    [][call'.op = "enable" =>
        LET state == Bool(call'.args[1])
        IN  /\ (written' # <<>>) <=> (_enable # state)
            /\ Len(written') <= 1
            /\ _enable' = state
            /\ written' # <<>> =>
                 /\ written'[1].kind = "cmd"
                 /\ written'[1].data =
                      IF variant = 1
                      THEN V1_Frame(IF state THEN V1_CMD_SCREEN_ON ELSE V1_CMD_SCREEN_OFF, 0)
                      ELSE V2_Frame(V2_CMD_SET_BRIGHTNESS, IF state THEN _brightness ELSE 0)
            /\ (written' # <<>> /\ ~state) => lastEnableCmd # "off"
            /\ (call.op = "enable" /\ ~Bool(call.args[1]) /\ ~state) =>
                 Len(written) + Len(written') <= 1
    ]_vars

\* a second enable(false) wrote nothing after the first wrote the off command
EnableRedundantReached ==
    /\ call = [op |-> "enable", args |-> <<"False">>]
    /\ written = <<>>
    /\ ~_enable
    /\ lastEnableCmd = "off"

\* C2: on variant 2, enable(true) on a disabled display writes one set-brightness
\* frame whose first payload byte is the scale of the last brightness call that
\* succeeded, whether that call came before or after the display was disabled.
EnableRestoresBrightness ==
    [][(variant = 2 /\ call'.op = "enable" /\ Bool(call'.args[1]) /\ ~_enable
          /\ lastScale # <<>>) =>
        /\ Len(written') = 1
        /\ written'[1].kind = "cmd"
        /\ written'[1].data = V2_Frame(206, lastScale[1])
    ]_vars

\* enable(true) restored 200 on a display that had been disabled
EnableRestoredReached ==
    /\ variant = 2
    /\ call.op = "enable" /\ Bool(call.args[1])
    /\ lastEnableCmd = "on"
    /\ lastScale = <<200>>
    /\ Len(written) = 1 /\ written[1].data[2] = 200

\* C3: on variant 2, brightness(scale) with 0 <= scale <= 255 records scale, writes
\* exactly one set-brightness frame carrying scale when the display is enabled, and
\* writes nothing when it is disabled.
BrightnessRecordsAndWritesIfEnabled ==
    [][(variant = 2 /\ call'.op = "brightness"
          /\ 0 <= call'.args[1] /\ call'.args[1] <= 255) =>
        /\ result' = "ok"
        /\ _brightness' = call'.args[1]
        /\ _enable => /\ Len(written') = 1
                      /\ written'[1].kind = "cmd"
                      /\ written'[1].data = V2_Frame(206, call'.args[1])
        /\ ~_enable => written' = <<>>
    ]_vars

\* brightness(200) on a disabled variant 2 display: recorded, nothing written
BrightnessWhileDisabledReached ==
    /\ variant = 2
    /\ call = [op |-> "brightness", args |-> <<200>>]
    /\ result = "ok"
    /\ ~_enable
    /\ _brightness = 200
    /\ written = <<>>

\* C4: update_region with fewer than width * height pixels fails with the assertion
\* error, writes nothing and leaves every field of the display state, the time of
\* the last transfer included, as it was.
ShortBufferRefused ==
    [][(call'.op = "update_region"
          /\ Len(call'.args[5]) < call'.args[3] * call'.args[4]) =>
        /\ result' = "AssertionError"
        /\ written' = <<>>
        /\ UNCHANGED DisplayState
    ]_vars

\* a short buffer was refused after an earlier transfer had been recorded
ShortBufferRefusedReached ==
    /\ call.op = "update_region"
    /\ Len(call.args[5]) < call.args[3] * call.args[4]
    /\ result = "AssertionError"
    /\ last_bitmap_time > 0
    /\ written = <<>>

\* C5: brightness with a scale outside 0..255 on either variant, and backlight with
\* a channel outside 0..255 on variant 2, fail with the assertion error, write
\* nothing and leave the display state, the remembered brightness included, as it was.
OutOfRangeRefused ==
    [][(\/ /\ call'.op = "brightness"
           /\ (call'.args[1] < 0 \/ call'.args[1] > 255)
        \/ /\ variant = 2 /\ call'.op = "backlight"
           /\ \E i \in 1..3 : call'.args[i] < 0 \/ call'.args[i] > 255) =>
        /\ result' = "AssertionError"
        /\ written' = <<>>
        /\ UNCHANGED DisplayState
    ]_vars

\* brightness(256) was refused and the remembered brightness is still 200
OutOfRangeRefusedReached ==
    /\ call = [op |-> "brightness", args |-> <<256>>]
    /\ result = "AssertionError"
    /\ _brightness = 200
    /\ written = <<>>

\* C6: constructing variant 2 writes the hello frame, and a response of fewer than
\* 10 bytes, with a wrong first or last byte, or without the HELLO echo makes the
\* construction fail with TuringProtocolError, leaving no instance.
HandshakeFailsWithProtocolError ==
    call.op = "__init__" =>
        LET response == call.args[1]
        IN  /\ Len(written) = 1 /\ written[1].data = HelloFrame
            /\ (\/ Len(response) < 10
                \/ response[1] # 202
                \/ response[Len(response)] # 202
                \/ SubSeq(response, 2, 6) # <<72, 69, 76, 76, 79>>) =>
                 /\ result = "TuringProtocolError"
                 /\ pc = "failed"

\* C7: no command frame is written before last_bitmap_time + inter_bitmap_delay, and
\* a successful update_region records a time not before its last write.
CommandsKeepTheDelay ==
    [][/\ \A i \in 1..Len(written') :
            written'[i].kind = "cmd" =>
                written'[i].at >= last_bitmap_time + inter_bitmap_delay
       /\ (call'.op = "update_region" /\ result' = "ok") =>
            /\ written' # <<>>
            /\ last_bitmap_time' >= written'[Len(written')].at
    ]_vars

\* a command entered less than the delay after a transfer was written at the delay
CommandDelayedReached ==
    /\ call.op \in {"brightness", "enable", "clear", "orientation", "backlight"}
    /\ written # <<>>
    /\ last_bitmap_time > 0
    /\ written[1].at = last_bitmap_time + inter_bitmap_delay

\* the bounding box a begin-bitmap frame carries: <<x, y, x1, y1>>
V1_Box(data) ==
    << data[1] * 4 + data[2] \div 64,
       (data[2] % 64) * 16 + data[3] \div 16,
       (data[3] % 16) * 64 + data[4] \div 4,
       (data[4] % 4) * 256 + data[5] >>
V2_Box(data) ==
    << data[2] * 256 + data[3], data[4] * 256 + data[5],
       data[6] * 256 + data[7], data[8] * 256 + data[9] >>

\* the 16 bit pixel for a colour, and the two bytes it is sent as
Rgb565(colour) == (colour[1] \div 8) * 2048 + (colour[2] \div 4) * 32 + colour[3] \div 8
PixelBytes(colour) ==
    IF variant = 1
    THEN <<Rgb565(colour) % 256, Rgb565(colour) \div 256>>
    ELSE <<Rgb565(colour) \div 256, Rgb565(colour) % 256>>

InBounds(x, y, width, height) ==
    /\ 0 <= x /\ 0 <= y /\ 0 < width /\ 0 < height
    /\ x + width <= self_width /\ y + height <= self_height

\* C8: a successful update_region of a rectangle inside the display writes one
\* begin-bitmap frame carrying the transformed box with inclusive corners, then only
\* pixel data: the transformed pixels in order, two bytes each, in writes of 320 * 8
\* pixels of which only the last may be shorter; the time it records is not before
\* the last write.
RegionWrittenInOrder ==
    [][(/\ call'.op = "update_region" /\ result' = "ok"
        /\ InBounds(call'.args[1], call'.args[2], call'.args[3], call'.args[4])) =>
        \A inv \in {apply_inversion(call'.args[1], call'.args[2], call'.args[3],
                                    call'.args[4], call'.args[5])} :
          LET n == inv[3] * inv[4]
              count == Len(written')
              per == 320 * 8
          IN  /\ count = 1 + (n + per - 1) \div per
              /\ written'[1].kind = "cmd"
              /\ IF variant = 1
                 THEN /\ Len(written'[1].data) = 6
                      /\ written'[1].data[6] = 197
                      /\ V1_Box(written'[1].data)
                           = <<inv[1], inv[2], inv[1] + inv[3] - 1, inv[2] + inv[4] - 1>>
                 ELSE /\ Len(written'[1].data) = 10
                      /\ written'[1].data[1] = 204 /\ written'[1].data[10] = 204
                      /\ V2_Box(written'[1].data)
                           = <<inv[1], inv[2], inv[1] + inv[3] - 1, inv[2] + inv[4] - 1>>
              /\ \A i \in 2..count :
                    /\ written'[i].kind = "pix"
                    /\ Len(written'[i].data) <= 2 * per
                    /\ i < count => Len(written'[i].data) = 2 * per
              /\ \A p \in 1..n :
                    LET data == written'[2 + (p - 1) \div per].data
                        at == 2 * ((p - 1) % per)
                    IN  <<data[at + 1], data[at + 2]>> = PixelBytes(inv[5][p])
              /\ last_bitmap_time' >= written'[count].at
    ]_vars

\* an inverted region of more than 320 * 8 pixels went out as a frame and two writes
RegionInTwoChunksReached ==
    /\ call.op = "update_region"
    /\ result = "ok"
    /\ _invert = INVERT_XY
    /\ Len(written) = 3
    /\ Len(written[3].data) = 2 * (320 * 9 - 320 * 8)

\* C9: on variant 2 the width and height are 320 x 480 once constructed, 320 x 480
\* after a successful orientation(portrait), 480 x 320 after a successful
\* orientation(landscape), and change at no other call; a successful orientation
\* call writes exactly one set-orientation frame carrying the orientation.
OrientationSetsWidthAndHeight ==
    [][variant = 2 =>
        /\ call'.op = "__init__" => self_width' = 320 /\ self_height' = 480
        /\ IF call'.op = "orientation" /\ result' = "ok"
           THEN /\ call'.args[1] = 0 => self_width' = 320 /\ self_height' = 480
                /\ call'.args[1] = 1 => self_width' = 480 /\ self_height' = 320
                /\ call'.args[1] \in {0, 1}
                /\ Len(written') = 1
                /\ written'[1].kind = "cmd"
                /\ written'[1].data = V2_Frame(203, call'.args[1])
           ELSE self_width' = self_width /\ self_height' = self_height
    ]_vars

\* orientation(landscape) succeeded on variant 2
LandscapeReached ==
    /\ variant = 2
    /\ call = [op |-> "orientation", args |-> <<ORIENTATION_LANDSCAPE>>]
    /\ result = "ok"
    /\ self_width = 480 /\ self_height = 320

\* C10: on a buffer of exactly width * height pixels, apply_inversion returns its
\* arguments unchanged when no inversion is set, and applied twice under INVERT_XY
\* it returns the original position, size and pixels.
InversionIdentityAndXYTwice ==
    /\ (/\ call.op = "apply_inversion" /\ _invert = 0
        /\ Len(call.args[5]) = call.args[3] * call.args[4]) =>
            ret = call.args
    /\ (/\ call.op = "apply_inversion_again" /\ _invert = INVERT_XY
        /\ Len(call.args[5]) = call.args[3] * call.args[4]) =>
            /\ ret[1] = call.args[1] /\ ret[2] = call.args[2]
            /\ ret[3] = call.args[3] /\ ret[4] = call.args[4]
            /\ Len(ret[5]) = Len(call.args[5])
            /\ \A i \in 1..Len(ret[5]) : ret[5][i] = call.args[5][i]

\* apply_inversion ran twice under INVERT_XY on a 3 x 2 rectangle inside the display
InversionTwiceReached ==
    /\ call.op = "apply_inversion_again"
    /\ _invert = INVERT_XY
    /\ call.args[3] = 3 /\ call.args[4] = 2
    /\ Len(call.args[5]) = 6
    /\ InBounds(call.args[1], call.args[2], call.args[3], call.args[4])
    /\ ret[5][1] = call.args[5][1]

V2_OpcodeOf(op) ==
    CASE op = "__init__" -> 202
      [] op = "orientation" -> 203
      [] op = "update_region" -> 204
      [] op = "backlight" -> 205
      [] op \in {"brightness", "enable"} -> 206
V2_PayloadOf(frame) ==
    CASE call.op = "__init__" -> <<72, 69, 76, 76, 79>>
      [] call.op = "orientation" -> <<call.args[1]>>
      [] call.op = "update_region" -> SubSeq(frame, 2, 9)
      [] call.op = "backlight" -> call.args
      [] call.op = "brightness" -> <<call.args[1]>>
      [] call.op = "enable" -> IF _enable THEN <<_brightness>> ELSE <<0>>

\* C12: every command variant 2 writes, in the constructor and in every operation,
\* is one frame of 10 bytes: the opcode, the payload padded with zeros on the right
\* to 8 bytes, and the opcode again; no call writes more than one command.
V2FramesAreTenBytes ==
    variant = 2 =>
        /\ \A i \in 1..Len(written) :
              written[i].kind = "cmd" =>
                  LET frame == written[i].data
                      payload == V2_PayloadOf(frame)
                  IN  /\ i = 1
                      /\ Len(frame) = 10
                      /\ frame[1] = V2_OpcodeOf(call.op)
                      /\ frame[10] = V2_OpcodeOf(call.op)
                      /\ Len(payload) <= 8
                      /\ \A j \in 1..8 :
                            /\ frame[j + 1] \in 0..255
                            /\ frame[j + 1] = IF j <= Len(payload) THEN payload[j] ELSE 0
        /\ Len(written) > 1 => call.op = "update_region"

\* a set-backlight frame: three payload bytes and five of padding
V2BacklightFrameReached ==
    /\ variant = 2
    /\ call.op = "backlight"
    /\ written = <<[kind |-> "cmd", data |-> <<205, 255, 128, 0, 0, 0, 0, 0, 0, 205>>,
                   at |-> now]>>

\* the opcode and the payload a variant 1 call hands to send_command
V1_OpcodeOf(op) ==
    CASE op = "clear" -> 102
      [] op = "enable" -> IF _enable THEN 109 ELSE 108
      [] op = "brightness" -> 110
      [] op = "update_region" -> 197
V1_PayloadOf(frame) ==
    CASE call.op \in {"clear", "enable"} -> <<>>
      [] call.op = "brightness" -> <<255 - call.args[1]>>
      [] call.op = "update_region" -> SubSeq(frame, 1, 5)

\* what a variant 1 command frame of the given length has to look like
V1_FramesHave(length) ==
    variant = 1 =>
        /\ \A i \in 1..Len(written) :
              written[i].kind = "cmd" =>
                  LET frame == written[i].data
                      payload == V1_PayloadOf(frame)
                  IN  /\ i = 1
                      /\ Len(frame) = length
                      /\ frame[Len(frame)] = V1_OpcodeOf(call.op)
                      /\ Len(payload) <= 5
                      /\ \A j \in 1..5 :
                            /\ frame[j] \in 0..255
                            /\ frame[j] = IF j <= Len(payload) THEN payload[j] ELSE 0
        /\ Len(written) > 1 => call.op = "update_region"

\* C13: every command variant 1 writes (clear, screen on, screen off, set brightness,
\* begin bitmap) is one frame of 6 bytes: the payload padded with zeros on the right
\* to 5 bytes, then the opcode as the last byte.
V1FramesAreSixBytes == V1_FramesHave(6)

\* C13 as the specification has it: the frame has 7 bytes
V1FramesAreSevenBytes == V1_FramesHave(7)

\* a set-brightness frame: one payload byte, four of padding, the opcode
V1BrightnessFrameReached ==
    /\ variant = 1
    /\ call.op = "brightness"
    /\ written = <<[kind |-> "cmd", data |-> <<55, 0, 0, 0, 0, 110>>, at |-> now]>>

\* C14: on variant 1, brightness(scale) with scale in 0..255 writes one frame with
\* opcode 110 whose first payload byte is 255 - scale and whose other payload bytes
\* are zero, whether the display is enabled or not, and records scale.
V1BrightnessSendsInverse ==
    [][(variant = 1 /\ call'.op = "brightness"
          /\ 0 <= call'.args[1] /\ call'.args[1] <= 255) =>
        /\ result' = "ok"
        /\ _brightness' = call'.args[1]
        /\ _enable' = _enable
        /\ Len(written') = 1
        /\ written'[1].kind = "cmd"
        /\ written'[1].data = <<255 - call'.args[1], 0, 0, 0, 0, 110>>
    ]_vars

\* brightness(128) on a disabled variant 1 display sent 127
V1BrightnessHalfReached ==
    /\ variant = 1
    /\ call = [op |-> "brightness", args |-> <<128>>]
    /\ ~_enable
    /\ _brightness = 128
    /\ written[1].data[1] = 127

\* the 16 bit value two bytes stand for, low byte first or high byte first
LittleEndian(bytes) == bytes[1] + 256 * bytes[2]
BigEndian(bytes) == 256 * bytes[1] + bytes[2]

\* C15: the 16 bit value sent for a colour has the top 5 bits of r in bits 15..11,
\* the top 6 bits of g in bits 10..5 and the top 5 bits of b in bits 4..0; variant 1
\* sends its low byte first, variant 2 its high byte first.
PixelIsRgb565 ==
    call.op = "pack" =>
        LET r == call.args[1][1]
            g == call.args[1][2]
            b == call.args[1][3]
            v == IF variant = 1 THEN LittleEndian(ret) ELSE BigEndian(ret)
        IN  /\ Len(ret) = 2
            /\ ret[1] \in 0..255 /\ ret[2] \in 0..255
            /\ v \div 2048 = r \div 8
            /\ (v \div 32) % 64 = g \div 4
            /\ v % 32 = b \div 8

\* variant 2 packed a colour whose two bytes differ, high byte first
PixelPackedReached ==
    /\ variant = 2
    /\ call = [op |-> "pack", args |-> <<<<255, 100, 3>>>>]
    /\ ret = <<251, 32>>

\* C16: on variant 2, clear() writes one begin-bitmap frame whose box is (0, 0) to
\* (width - 1, height - 1) for the current orientation, then 320 * 480 pixels, all of
\* them zero, under every orientation and inversion; on variant 1, clear() writes
\* the clear frame (opcode 102) and nothing else.
ClearBlanksWholeScreen ==
    [][call'.op = "clear" =>
        IF variant = 1
        THEN /\ result' = "ok"
             /\ Len(written') = 1
             /\ written'[1].kind = "cmd"
             /\ written'[1].data = <<0, 0, 0, 0, 0, 102>>
        ELSE /\ result' = "ok"
             /\ written'[1].kind = "cmd"
             /\ Len(written'[1].data) = 10
             /\ written'[1].data[1] = 204 /\ written'[1].data[10] = 204
             /\ V2_Box(written'[1].data) = <<0, 0, self_width - 1, self_height - 1>>
             /\ \A w \in {written'} :
                  /\ \A i \in 2..Len(w) :
                        /\ w[i].kind = "pix"
                        /\ \A j \in 1..Len(w[i].data) : w[i].data[j] = 0
                  /\ \E sizes \in {[i \in 2..Len(w) |-> Len(w[i].data)]} :
                        /\ \A i \in 2..Len(w) : sizes[i] = 2 * 320 * 8
                        /\ (Len(w) - 1) * (2 * 320 * 8) = 2 * 320 * 480
    ]_vars

\* variant 2 cleared a landscape display with both axes inverted
ClearLandscapeReached ==
    /\ variant = 2
    /\ call.op = "clear"
    /\ result = "ok"
    /\ _orientation = ORIENTATION_LANDSCAPE
    /\ _invert = INVERT_XY
    /\ V2_Box(written[1].data) = <<0, 0, 479, 319>>
    /\ Len(written) = 61

\* C17: invert(mode) succeeds on both variants, writes nothing, sets the inversion
\* mode to mode and leaves the orientation, the brightness, the enabled flag and the
\* time of the last transfer as they were.
InvertOnlySetsMode ==
    [][call'.op = "invert" =>
        /\ result' = "ok"
        /\ written' = <<>>
        /\ _invert' = call'.args[1]
        /\ UNCHANGED <<_orientation, _brightness, _enable, last_bitmap_time>>
    ]_vars

\* invert(INVERT_XY) on a disabled landscape variant 2 display after a transfer
InvertSetReached ==
    /\ variant = 2
    /\ call = [op |-> "invert", args |-> <<INVERT_XY>>]
    /\ _invert = INVERT_XY
    /\ _orientation = ORIENTATION_LANDSCAPE
    /\ ~_enable
    /\ _brightness = 200
    /\ last_bitmap_time > 0
    /\ written = <<>>

\* C18: for a buffer of width * height pixels and a rectangle inside the display,
\* apply_inversion under INVERT_X, INVERT_Y or INVERT_XY returns the same width and
\* height; with a vertical flip (Y, XY) output row r is input row height - 1 - r and
\* the new y is display height - (y + height); with a horizontal flip (X, XY) output
\* column c is input column width - 1 - c and the new x is display width - (x + width);
\* otherwise rows, columns and position stay; the rectangle returned is inside the
\* display.
InversionFlipsRowsAndColumns ==
    (/\ call.op = "apply_inversion"
     /\ _invert \in {INVERT_X, INVERT_Y, INVERT_XY}
     /\ InBounds(call.args[1], call.args[2], call.args[3], call.args[4])
     /\ Len(call.args[5]) = call.args[3] * call.args[4]) =>
        LET x == call.args[1]
            y == call.args[2]
            width == call.args[3]
            height == call.args[4]
            vertical == _invert \in {INVERT_Y, INVERT_XY}
            horizontal == _invert \in {INVERT_X, INVERT_XY}
        IN  /\ Len(ret) = 5
            /\ ret[3] = width /\ ret[4] = height
            /\ ret[1] = IF horizontal THEN self_width - (x + width) ELSE x
            /\ ret[2] = IF vertical THEN self_height - (y + height) ELSE y
            /\ InBounds(ret[1], ret[2], ret[3], ret[4])
            /\ Len(ret[5]) = width * height
            /\ \A r \in 0..(height - 1), c \in 0..(width - 1) :
                  ret[5][r * width + c + 1] =
                      call.args[5][(IF vertical THEN height - 1 - r ELSE r) * width
                                   + (IF horizontal THEN width - 1 - c ELSE c) + 1]

\* a 3 x 2 rectangle flipped on both axes on a landscape display
InversionFlippedReached ==
    /\ call.op = "apply_inversion"
    /\ _invert = INVERT_XY
    /\ _orientation = ORIENTATION_LANDSCAPE
    /\ <<call.args[1], call.args[2], call.args[3], call.args[4]>> = <<1, 2, 3, 2>>
    /\ Len(call.args[5]) = 6
    /\ <<ret[1], ret[2]>> = <<476, 316>>
    /\ ret[5][1] = call.args[5][6]

\* C19: for a region inside the display, the begin-bitmap payload has every byte in
\* 0..255 and gives back the inclusive corners x, y, x1, y1: read as four two-byte
\* values, high byte first, on variant 2 (8 bytes), and as four consecutive fields of
\* 10 bits, most significant first, on variant 1 (5 bytes).
PayloadEncodesCorners ==
    call.op = "payload" =>
        /\ \A i \in 1..Len(ret) : ret[i] \in 0..255
        /\ IF variant = 1
           THEN /\ Len(ret) = 5
                /\ V1_Box(ret) = call.args
           ELSE /\ Len(ret) = 8
                /\ V2_Box(<<204>> \o ret \o <<204>>) = call.args

\* variant 1 encoded corners that use both the low and the high bits of their fields
PayloadEncodedReached ==
    /\ variant = 1
    /\ call = [op |-> "payload", args |-> <<261, 261, 319, 479>>]
    /\ ret = <<65, 80, 84, 253, 223>>

\* the number of bytes the writes from the i-th on carry
RECURSIVE BytesFrom(_, _)
BytesFrom(writes, i) ==
    IF i > Len(writes) THEN 0 ELSE Len(writes[i].data) + BytesFrom(writes, i + 1)

\* C20: a successful update_region sends, after the begin-bitmap frame, exactly
\* width * height pixels (2 * width * height bytes), the first width * height of the
\* transformed buffer, under every inversion mode and also when the buffer holds
\* more than width * height pixels.
RegionSendsExactlyItsPixels ==
    [][(call'.op = "update_region" /\ result' = "ok") =>
        \A inv \in {apply_inversion(call'.args[1], call'.args[2], call'.args[3],
                                    call'.args[4], call'.args[5])} :
          LET n == call'.args[3] * call'.args[4]
              per == 320 * 8
          IN  /\ BytesFrom(written', 2) = 2 * n
              /\ \A p \in 1..n :
                    LET data == written'[2 + (p - 1) \div per].data
                        at == 2 * ((p - 1) % per)
                    IN  <<data[at + 1], data[at + 2]>> = PixelBytes(inv[5][p])
    ]_vars

\* C21: on variant 1, orientation(state) and backlight(r, g, b) fail with
\* TuringNotImplementedError, write nothing and leave the display state as it was;
\* after every call the stored orientation is portrait and the width and height are
\* 320 and 480.
V1UnsupportedLeavesState ==
    [][variant = 1 =>
        /\ call'.op \in {"orientation", "backlight"} =>
             /\ result' = "TuringNotImplementedError"
             /\ written' = <<>>
             /\ UNCHANGED DisplayState
        /\ _orientation' = ORIENTATION_PORTRAIT
        /\ self_width' = 320 /\ self_height' = 480
    ]_vars

====
